---- MODULE Spec2Model ----
(***************************************************************************)
(* Model of src/app.py, the "Affine & Basis Transformation" Streamlit      *)
(* script.  The script is re-executed from top to bottom every time a      *)
(* sidebar widget changes; one action of the model is one such re-run.     *)
(*                                                                         *)
(* Numbers.  The script computes in IEEE doubles.  The model computes in   *)
(* exact rational arithmetic: a number is a pair <<n, d>> in lowest terms  *)
(* with d > 0.  The library routines are modelled by the algorithm they    *)
(* run (LU factorisation with partial pivoting for numpy.linalg.det and    *)
(* numpy.linalg.solve), carried out exactly; rounding error is not         *)
(* modelled.  The tolerances of the script are kept as they are written.   *)
(***************************************************************************)
EXTENDS Integers, Sequences, FiniteSets, TLC

(***************************************************************************)
(* Bound of the model: the largest integer a basis widget may be set to.   *)
(***************************************************************************)
MaxBasis == 1

(***************************************************************************)
(* Exact rational arithmetic.                                              *)
(***************************************************************************)
Abs(x) == IF x < 0 THEN -x ELSE x

RECURSIVE Gcd(_, _)
Gcd(a, b) == IF b = 0 THEN a ELSE Gcd(b, a % b)

Reduce(n, d, g) == <<n \div g, d \div g>>
Rat(n, d) ==
    IF d < 0 THEN Reduce(-n, -d, Gcd(Abs(n), Abs(d)))
    ELSE Reduce(n, d, Gcd(Abs(n), Abs(d)))

R(k) == <<k, 1>>
Zero == R(0)
RNeg(x) == <<-x[1], x[2]>>
RAbs(x) == <<Abs(x[1]), x[2]>>
RInv(x) == IF x[1] < 0 THEN <<-x[2], -x[1]>> ELSE <<x[2], x[1]>>
\* Sums over the least common denominator and products with the common
\* factors cancelled first, so that the intermediate integers stay small.
AddOver(x, y, g) ==
    Rat(x[1] * (y[2] \div g) + y[1] * (x[2] \div g), (x[2] \div g) * y[2])
MulOver(x, y, g, h) ==
    Rat((x[1] \div g) * (y[1] \div h), (x[2] \div h) * (y[2] \div g))
RAdd(x, y) == AddOver(x, y, Gcd(x[2], y[2]))
RSub(x, y) == RAdd(x, RNeg(y))
RMul(x, y) == MulOver(x, y, Gcd(y[2], Abs(x[1])), Gcd(x[2], Abs(y[1])))
RDiv(x, y) == RMul(x, RInv(y))

\* a/b < c/d for a, c >= 0 and b, d > 0, by comparing the integer parts and
\* then the inverted remainders, so that no product is formed.
RECURSIVE LessNN(_, _, _, _)
LessNN(a, b, c, d) ==
    IF a \div b # c \div d THEN a \div b < c \div d
    ELSE IF c % d = 0 THEN FALSE
    ELSE IF a % b = 0 THEN TRUE
    ELSE LessNN(d, c % d, b, a % b)

RLess(x, y) ==
    IF x[1] < 0
    THEN y[1] >= 0 \/ LessNN(-y[1], y[2], -x[1], x[2])
    ELSE y[1] >= 0 /\ LessNN(x[1], x[2], y[1], y[2])

\* n * 10^e <= m, for n, m >= 0, without forming 10^e.
RECURSIVE PowLeq(_, _, _)
PowLeq(n, e, m) == IF e = 0 THEN n <= m ELSE PowLeq(n, e - 1, m \div 10)

\* x < 10^(-e) for a rational x >= 0:  n * 10^e < d  iff  n * 10^e <= d - 1.
BelowPow10(x, e) == PowLeq(x[1], e, x[2] - 1)

(***************************************************************************)
(* The sidebar widgets: their default values and the values they take.     *)
(***************************************************************************)
Half == <<1, 2>>
Small == <<1, 10000>>

DefaultVx == R(3)
DefaultVy == R(2)
DefaultB1x == R(1)
DefaultB1y == Half
DefaultB2x == RNeg(Half)
DefaultB2y == R(1)
DefaultC1 == R(1)
DefaultC2 == R(1)

PointVals == {Zero, R(1)}
BasisVals == {R(-1)} \cup {R(k) : k \in 0..MaxBasis}
OriginXVals == {Zero, Small, R(1)}
OriginYVals == {Zero, R(1)}

\* The values of the runs whose history is remembered.
HistVx == {DefaultVx, Zero}
HistVy == {DefaultVy}
HistB1x == {DefaultB1x, Zero}
HistB1y == {DefaultB1y, Zero}
HistB2x == {DefaultB2x, Zero}
HistB2y == {DefaultB2y, Zero}
HistC1 == {DefaultC1, Zero}
HistC2 == {DefaultC2}

(***************************************************************************)
(* The calculations of one run.                                            *)
(***************************************************************************)
None == <<>>

\* basis_matrix: the basis vectors are its columns.  (BasisMatrixMutantRows
\* and the other ...Mutant... operators below are faulty variants of the
\* operator that follows them; the properties are also checked to fail on
\* them.)
BasisMatrixMutantRows(x1, y1, x2, y2) == <<<<x1, y1>>, <<x2, y2>>>>
BasisMatrix(x1, y1, x2, y2) == <<<<x1, x2>>, <<y1, y2>>>>

\* The LU factorisation with partial pivoting both numpy.linalg.det and
\* numpy.linalg.solve run: the row with the larger first entry (the first one
\* on a tie) becomes the pivot row, the other row is eliminated with the
\* multiplier l.
Factors(top, low, swap, l) ==
    [swap |-> swap, u11 |-> top[1], u12 |-> top[2], l |-> l,
     u22 |-> RSub(low[2], RMul(l, top[2]))]
Eliminate(top, low, swap) ==
    Factors(top, low, swap,
            IF top[1] = Zero THEN Zero ELSE RDiv(low[1], top[1]))
Pivot(M, swap) ==
    IF swap THEN Eliminate(M[2], M[1], TRUE) ELSE Eliminate(M[1], M[2], FALSE)
LU(M) == Pivot(M, RLess(RAbs(M[1][1]), RAbs(M[2][1])))

\* numpy.linalg.det: the product of U's diagonal, negated on a row swap.
DiagProduct(f) ==
    IF f.swap THEN RNeg(RMul(f.u11, f.u22)) ELSE RMul(f.u11, f.u22)
DetMutantDiagonal(M) == RMul(M[1][1], M[2][2])
Det(M) == DiagProduct(LU(M))

\* np.dot of the two basis vectors.
Dot(x1, y1, x2, y2) == RAdd(RMul(x1, x2), RMul(y1, y2))

OrthTolExp == 5
IsOrthogonalMutantPositiveExp(d) == RLess(RAbs(d), R(100000))
IsOrthogonal(d) == BelowPow10(RAbs(d), OrthTolExp)

DetTolExp == 10
DegenerateMutantNever(d) == FALSE
Degenerate(d) == BelowPow10(RAbs(d), DetTolExp)

VRelativeMutantAdd(v, o) == <<RAdd(v[1], o[1]), RAdd(v[2], o[2])>>
VRelative(v, o) == <<RSub(v[1], o[1]), RSub(v[2], o[2])>>

\* numpy.linalg.solve: LinAlgError when the factorisation meets a zero pivot,
\* else the right-hand side, permuted like the rows, is forward- and
\* back-substituted.
Singular == "LinAlgError"
BackWith(f, y1, x2) == <<RDiv(RSub(y1, RMul(f.u12, x2)), f.u11), x2>>
Back(f, y1, y2) == BackWith(f, y1, RDiv(y2, f.u22))
Forward(f, y1, s2) == Back(f, y1, RSub(s2, RMul(f.l, y1)))
Substitute(f, s) ==
    IF f.u11 = Zero \/ f.u22 = Zero THEN Singular
    ELSE IF f.swap THEN Forward(f, s[2], s[1]) ELSE Forward(f, s[1], s[2])
SolveMutantNoPermute(M, s) ==
    IF LU(M).u11 = Zero \/ LU(M).u22 = Zero THEN Singular
    ELSE Forward(LU(M), s[1], s[2])
Solve(M, s) == Substitute(LU(M), s)

NormSq(v) == RAdd(RMul(v[1], v[1]), RMul(v[2], v[2]))

\* np.linalg.norm(origin_pos) > 0.1, compared on the squares.
ArrowTolSq == <<1, 100>>
OriginArrowMutantCentered(o) == ~BelowPow10(NormSq(o), 2 * OrthTolExp)
OriginArrow(o) == RLess(ArrowTolSq, NormSq(o))

\* The result section of the page for a basis that is not degenerate.
Results(orth) ==
    {"info", "shifted", "coords", "matrix", "plot"}
        \cup (IF orth THEN {"orthogonal"} ELSE {"skewed", "no_rotation_note"})

\* What the run puts on the page below the title: st.error alone in the
\* degenerate branch; the uncaught LinAlgError if solve raises; else the
\* results.
PageMutantErrorAndResults(deg, orth, coords) ==
    IF deg THEN {"error"} \cup Results(orth) ELSE Results(orth)
PageMutantVerdictFirst(deg, orth, coords) ==
    IF deg THEN {"error"} \cup (IF orth THEN {"orthogonal"} ELSE {"skewed"})
    ELSE Results(orth)
Page(deg, orth, coords) ==
    IF deg THEN {"error"}
    ELSE IF coords = Singular THEN {"exception"}
    ELSE Results(orth)

\* The arrows of the diagram, by their legend labels.
Arrows(o) ==
    {"Basis 1", "Basis 2", "Global Vector"}
        \cup (IF OriginArrow(o) THEN {"Origin Shift"} ELSE {})

\* A name the run never binds: every run starts from an empty namespace and
\* the degenerate branch assigns neither v_relative nor v_new_coords.
UnboundMutantKeep(old) == old
Unbound(old) == None

\* What one run leaves behind: the names it bound and the page it drew.
Outcome(M, d, dp, orth, deg, rel, new, new0, o) ==
    [basis_matrix |-> M, det |-> d, dot_prod |-> dp, is_orthogonal |-> orth,
     v_relative |-> rel,
     v_new_coords |-> IF new = Singular THEN Unbound(new0) ELSE new,
     page |-> Page(deg, orth, new),
     arrows |-> IF ~deg /\ new # Singular THEN Arrows(o) ELSE {}]

\* The else branch (lines 50-133): translate, then change basis.
Convert(M, d, dp, rel, new0, o) ==
    Outcome(M, d, dp, IsOrthogonal(dp), FALSE, rel, Solve(M, rel), new0, o)

\* The branch on the determinant (line 48).
Branch(M, d, dp, v, o, rel0, new0) ==
    IF Degenerate(d)
    THEN Outcome(M, d, dp, IsOrthogonal(dp), TRUE,
                 Unbound(rel0), Unbound(new0), new0, o)
    ELSE Convert(M, d, dp, VRelative(v, o), new0, o)

Calculate(M, dp, v, o, rel0, new0) == Branch(M, Det(M), dp, v, o, rel0, new0)

\* One execution of the script's lines 34-133 on the widget values given;
\* rel0 and new0 are what v_relative and v_new_coords held before the run.
Run(x, y, x1, y1, x2, y2, o1, o2, rel0, new0) ==
    Calculate(BasisMatrix(x1, y1, x2, y2), Dot(x1, y1, x2, y2),
              <<x, y>>, <<o1, o2>>, rel0, new0)

(***************************************************************************)
(* The state: the widget values, and what the last run computed and put   *)
(* on the page.  memo is a history variable: a remembered earlier run.     *)
(***************************************************************************)
VARIABLES vx, vy, b1x, b1y, b2x, b2y, c1, c2,
          basis_matrix, det, dot_prod, is_orthogonal,
          v_relative, v_new_coords, page, arrows, memo

inputs == <<vx, vy, b1x, b1y, b2x, b2y, c1, c2>>
outputs == <<basis_matrix, det, dot_prod, is_orthogonal,
             v_relative, v_new_coords, page, arrows>>
vars == <<inputs, outputs, memo>>

Script ==
    \E r \in {Run(vx', vy', b1x', b1y', b2x', b2y', c1', c2',
                  v_relative, v_new_coords)} :
        /\ basis_matrix' = r.basis_matrix
        /\ det' = r.det
        /\ dot_prod' = r.dot_prod
        /\ is_orthogonal' = r.is_orthogonal
        /\ v_relative' = r.v_relative
        /\ v_new_coords' = r.v_new_coords
        /\ page' = r.page
        /\ arrows' = r.arrows

\* The first run, on the widgets' default values.
Init ==
    /\ vx = DefaultVx /\ vy = DefaultVy
    /\ b1x = DefaultB1x /\ b1y = DefaultB1y
    /\ b2x = DefaultB2x /\ b2y = DefaultB2y
    /\ c1 = DefaultC1 /\ c2 = DefaultC2
    /\ \E r \in {Run(vx, vy, b1x, b1y, b2x, b2y, c1, c2, None, None)} :
        /\ basis_matrix = r.basis_matrix
        /\ det = r.det
        /\ dot_prod = r.dot_prod
        /\ is_orthogonal = r.is_orthogonal
        /\ v_relative = r.v_relative
        /\ v_new_coords = r.v_new_coords
        /\ page = r.page
        /\ arrows = r.arrows
    /\ memo = None

\* A widget is given a value; Streamlit re-runs the script.
SetVx(v) == vx' = v /\ UNCHANGED <<vy, b1x, b1y, b2x, b2y, c1, c2>> /\ Script
SetVy(v) == vy' = v /\ UNCHANGED <<vx, b1x, b1y, b2x, b2y, c1, c2>> /\ Script
SetB1x(v) == b1x' = v /\ UNCHANGED <<vx, vy, b1y, b2x, b2y, c1, c2>> /\ Script
SetB1y(v) == b1y' = v /\ UNCHANGED <<vx, vy, b1x, b2x, b2y, c1, c2>> /\ Script
SetB2x(v) == b2x' = v /\ UNCHANGED <<vx, vy, b1x, b1y, b2y, c1, c2>> /\ Script
SetB2y(v) == b2y' = v /\ UNCHANGED <<vx, vy, b1x, b1y, b2x, c1, c2>> /\ Script
SetC1(v) == c1' = v /\ UNCHANGED <<vx, vy, b1x, b1y, b2x, b2y, c2>> /\ Script
SetC2(v) == c2' = v /\ UNCHANGED <<vx, vy, b1x, b1y, b2x, b2y, c1>> /\ Script
\* A re-run with no widget changed.
Rerun == UNCHANGED inputs /\ Script

Next ==
    \/ \E v \in PointVals : SetVx(v) /\ UNCHANGED memo
    \/ \E v \in PointVals : SetVy(v) /\ UNCHANGED memo
    \/ \E v \in BasisVals : SetB1x(v) /\ UNCHANGED memo
    \/ \E v \in BasisVals : SetB1y(v) /\ UNCHANGED memo
    \/ \E v \in BasisVals : SetB2x(v) /\ UNCHANGED memo
    \/ \E v \in BasisVals : SetB2y(v) /\ UNCHANGED memo
    \/ \E v \in OriginXVals : SetC1(v) /\ UNCHANGED memo
    \/ \E v \in OriginYVals : SetC2(v) /\ UNCHANGED memo
    \/ Rerun /\ UNCHANGED memo

Spec == Init /\ [][Next]_vars

(***************************************************************************)
(* The same runs with a history: one earlier run is remembered, with       *)
(* whether a degenerate run has happened since.                            *)
(***************************************************************************)
Take == memo = None /\ memo' = [in |-> inputs', out |-> outputs', deg |-> FALSE]
Keep ==
    memo' = IF memo = None THEN None
            ELSE [memo EXCEPT !.deg = @ \/ "error" \in page']
Remember == Take \/ Keep

NextHist ==
    \/ \E v \in HistVx : SetVx(v) /\ Remember
    \/ \E v \in HistVy : SetVy(v) /\ Remember
    \/ \E v \in HistB1x : SetB1x(v) /\ Remember
    \/ \E v \in HistB1y : SetB1y(v) /\ Remember
    \/ \E v \in HistB2x : SetB2x(v) /\ Remember
    \/ \E v \in HistB2y : SetB2y(v) /\ Remember
    \/ \E v \in HistC1 : SetC1(v) /\ Remember
    \/ \E v \in HistC2 : SetC2(v) /\ Remember
    \/ Rerun /\ Remember

SpecHist == Init /\ [][NextHist]_vars

(***************************************************************************)
(* The properties.  They are stated on the widget values with the textbook *)
(* formulas, not with the operators of the run.                            *)
(***************************************************************************)
b1 == <<b1x, b1y>>
b2 == <<b2x, b2y>>
point == <<vx, vy>>
origin == <<c1, c2>>
ZeroVec == <<Zero, Zero>>

\* b1x*b2y - b2x*b1y and b1x*b2x + b1y*b2y.
ExactDet == RSub(RMul(b1x, b2y), RMul(b2x, b1y))
ExactDot == RAdd(RMul(b1x, b2x), RMul(b1y, b2y))
Scale(k, v) == <<RMul(k, v[1]), RMul(k, v[2])>>
Combine(c) ==
    <<RAdd(RMul(c[1], b1x), RMul(c[2], b2x)),
      RAdd(RMul(c[1], b1y), RMul(c[2], b2y))>>
ExactShift == <<RSub(vx, c1), RSub(vy, c2)>>
Cramer ==
    <<RDiv(RSub(RMul(ExactShift[1], b2y), RMul(ExactShift[2], b2x)), ExactDet),
      RDiv(RSub(RMul(ExactShift[2], b1x), RMul(ExactShift[1], b1y)), ExactDet)>>
Scalars == {R(k) : k \in -(MaxBasis + 1)..(MaxBasis + 1)} \cup {Half, RNeg(Half)}
Steps == {R(-1), Zero, R(1)}
IsDegenerate == "error" \in page

\* C1: the run reports LINEAR DEPENDENCE exactly when b1x*b2y - b2x*b1y = 0,
\* whatever the point and the origin; every basis with one vector a multiple
\* of the other (a zero vector included) is reported, every independent one
\* is not.
TheoremC1 ==
    /\ IsDegenerate <=> ExactDet = Zero
    /\ \A k \in Scalars : (b2 = Scale(k, b1) \/ b1 = Scale(k, b2)) => IsDegenerate
WitnessC1 ==
    /\ IsDegenerate /\ b1 = <<R(1), R(1)>> /\ b2 = <<R(-1), R(-1)>>
    /\ point = <<Zero, R(1)>> /\ origin = <<Small, Zero>>

\* C2: for a basis that is not degenerate the new coordinates c satisfy
\* c.x*basis1 + c.y*basis2 = point - origin in both components, no pair one
\* step away from c does, and c is the Cramer's-rule value.
TheoremC2 ==
    ~IsDegenerate =>
        /\ v_new_coords # None
        /\ Combine(v_new_coords) = ExactShift
        /\ v_new_coords = Cramer
        /\ \A dx, dy \in Steps :
              Combine(<<RAdd(v_new_coords[1], dx), RAdd(v_new_coords[2], dy)>>)
                  = ExactShift => dx = Zero /\ dy = Zero
WitnessC2 ==
    /\ "coords" \in page /\ b1 = <<Zero, R(1)>> /\ b2 = <<R(1), R(1)>>
    /\ point = <<R(1), Zero>> /\ origin = <<Small, R(1)>>
    /\ v_new_coords # point

\* C3: a degenerate run shows the error message and nothing else (no shifted
\* vector, no new coordinates, no verdict, no matrix, no diagram); any other
\* run shows no error and shows the shifted vector, the new coordinates, one
\* of the two verdicts, the matrix and the diagram.  New coordinates exist
\* exactly when the run is not degenerate.
TheoremC3 ==
    /\ ExactDet = Zero =>
          /\ page = {"error"}
          /\ v_relative = None /\ v_new_coords = None /\ arrows = {}
    /\ ExactDet # Zero =>
          /\ "error" \notin page /\ "exception" \notin page
          /\ {"shifted", "coords", "matrix", "plot"} \subseteq page
          /\ ("orthogonal" \in page) # ("skewed" \in page)
          /\ v_relative # None /\ arrows # {}
    /\ v_new_coords # None <=> ExactDet # Zero
WitnessC3 ==
    /\ page = {"error"} /\ v_new_coords = None
    /\ b1 = <<R(1), Zero>> /\ b2 = <<R(-1), Zero>> /\ point = <<R(1), R(1)>>

\* C4: in every run that is not degenerate the shifted vector plus the origin
\* is the point, in both components and whatever the basis; with the origin
\* at (0,0) the shifted vector is the point.
TheoremC4 ==
    ~IsDegenerate =>
        /\ "shifted" \in page
        /\ <<RAdd(v_relative[1], c1), RAdd(v_relative[2], c2)>> = point
        /\ origin = ZeroVec => v_relative = point
WitnessC4 ==
    /\ "shifted" \in page /\ origin = <<Small, R(1)>> /\ point = <<R(1), Zero>>
    /\ v_relative = <<<<9999, 10000>>, R(-1)>> /\ "skewed" \in page

\* C5: the orthogonality value is true exactly when b1x*b2x + b1y*b2y = 0,
\* whatever the point and the origin, and the verdict shown agrees with it:
\* (1,0),(0,1) is shown orthogonal and (1,1),(1,0) is shown skewed.
TheoremC5 ==
    /\ is_orthogonal <=> ExactDot = Zero
    /\ "orthogonal" \in page => ExactDot = Zero
    /\ "skewed" \in page => ExactDot # Zero
    /\ b1 = <<R(1), Zero>> /\ b2 = <<Zero, R(1)>> => "orthogonal" \in page
    /\ b1 = <<R(1), R(1)>> /\ b2 = <<R(1), Zero>> => "skewed" \in page
WitnessC5 ==
    /\ b1 = <<R(1), R(1)>> /\ b2 = <<R(1), Zero>> /\ "skewed" \in page
    /\ origin = <<Small, Zero>> /\ point = <<Zero, Zero>>

\* C6: no run ends in an exception: a run ends either with the degeneracy
\* error alone or with the results, and the linear solve has run only on a
\* matrix whose determinant is outside the degeneracy tolerance.
TheoremC6 ==
    /\ "exception" \notin page
    /\ page = {"error"} \/ ("error" \notin page /\ "coords" \in page)
    /\ v_new_coords # None => ~Degenerate(det) /\ ExactDet # Zero
WitnessC6 ==
    /\ page = {"error"} /\ b1 = ZeroVec /\ b2 = ZeroVec
    /\ point = <<R(1), R(1)>> /\ origin = <<Zero, Zero>>

AxisAligned == {<<R(1), Zero>>, <<Zero, R(1)>>, <<R(-1), Zero>>, <<Zero, R(-1)>>}

TheoremC10 ==
    /\ "orthogonal" \in page => b1 # ZeroVec /\ b2 # ZeroVec /\ ExactDet # Zero
    /\ IsDegenerate => "orthogonal" \notin page /\ "skewed" \notin page
WitnessC10 ==
    /\ IsDegenerate /\ is_orthogonal /\ b1 = ZeroVec /\ b2 = <<R(1), R(1)>>
    /\ "orthogonal" \notin page

====
